---- MODULE Spec2Model ----
(***************************************************************************)
(* A model of flowlib/model.py: the flow element factory, the write-once   *)
(* identity fields, the breadcrumb parent lookup, the controller lookup    *)
(* and the default containers of the constructors.                         *)
(*                                                                         *)
(* Representation of Python values:                                        *)
(*   str (names, paths)  a sequence of one-character strings               *)
(*   type discriminator  a TLA+ string                                     *)
(*   dict                a function from keys (TLA+ strings) to values     *)
(*   list                a sequence                                        *)
(*   None / a value      None / Some(v), for fields that may hold None     *)
(*   an object           a record of its attributes; objects that are      *)
(*                       shared or mutated in place live in a heap         *)
(***************************************************************************)
EXTENDS Integers, Sequences, FiniteSets, TLC

VARIABLES
    \* FlowElement.from_dict
    rec,        \* the record object handed to from_dict (mutated in place)
    arg,        \* the record as it was when the last call started
    result,     \* the outcome of the last call
    prevResult, \* the outcome of the call before it
    calls       \* number of calls made on rec

fdVars == <<rec, arg, result, prevResult, calls>>

VARIABLES
    \* the write-once identity fields
    obj,        \* the object under assignment (its class and attributes)
    first,      \* per field, the first value a caller assigned (None: none yet)
    count,      \* per field, the number of assignments attempted
    lastSet     \* the last assignment: its field, its rank and what it raised

idVars == <<obj, first, count, lastSet>>

VARIABLES
    \* the Flow and its element tree
    flow,       \* the Flow object
    nodes,      \* the elements built so far; an element is named by its index
    owner,      \* per element, the group it was declared in (0: the canvas)
    registered, \* the elements already entered in their owner's elements map
    gp,         \* the last get_parent_element call and its outcome
    walk        \* a walk towards the root by repeated get_parent_element

trVars == <<flow, nodes, owner, registered, gp, walk>>

VARIABLES
    \* the controller lookup (it reads flow.controllers)
    found       \* the last find_controller_by_name call and its outcome

ctVars == <<found>>

VARIABLES
    \* the containers behind the constructors' default arguments
    defaultObjects, \* per parameter with a container default, the contents of
                    \* the one object its default expression built
    heap,           \* the contents of the containers callers passed in
    insts,          \* the ProcessGroups and FlowComponents constructed
    lastOp          \* the last construction or insertion

dfVars == <<defaultObjects, heap, insts, lastOp>>
vars == <<fdVars, idVars, trVars, ctVars, dfVars>>

(***************************************************************************)
(* Python values                                                           *)
(***************************************************************************)
None == [some |-> FALSE]
Some(v) == [some |-> TRUE, v |-> v]

\* Scalars a caller may assign to an identity field
PyStr(s) == [t |-> "str", s |-> s, n |-> 0]
PyInt(n) == [t |-> "int", s |-> <<>>, n |-> n]
\* bool(v) of None, a str or an int
Bool(v) == IF v = None THEN FALSE
           ELSE IF v.t = "str" THEN v.s # <<>> ELSE v.n # 0

EmptyDict == [k \in {} |-> 0]
Has(d, k) == k \in DOMAIN d
\* d.pop(k) for a key that is present: the dict that is left
Pop(d, k) == [j \in DOMAIN d \ {k} |-> d[j]]
\* d[k] = v
Put(d, k, v) == (k :> v) @@ d
\* bool(v) of a str, a dict or a list: a container is true when not empty
Truthy(v) == DOMAIN v # {}
\* bool(s) of the type discriminator
TruthyTag(s) == s # ""

PG_NAME_DELIMETER == "/"
\* PG_NAME_DELIMETER in name
Contains(name, ch) == \E i \in DOMAIN name : name[i] = ch

\* An outcome of a call: the exception raised ("none" when it returned) and
\* the value returned.
Raise(kind) == [exc |-> kind, val |-> None]
Return(v) == [exc |-> "none", val |-> Some(v)]

\* F(**d): the keyword arguments bind when every parameter without a default
\* is given and no unknown keyword is; otherwise Python raises TypeError.
Binds(d, required, optional) ==
    /\ required \subseteq DOMAIN d
    /\ DOMAIN d \subseteq (required \cup optional)

(***************************************************************************)
(* Connection and the element constructors                                 *)
(***************************************************************************)
OptArg(d, k) == IF Has(d, k) THEN Some(d[k]) ELSE None

ConnectionInit(c) ==
    IF ~Binds(c, {"name"}, {"from_port", "to_port", "relationships"})
    THEN Raise("TypeError")
    ELSE Return([name |-> c["name"],
                 from_port |-> OptArg(c, "from_port"),
                 to_port |-> OptArg(c, "to_port"),
                 relationships |-> OptArg(c, "relationships")])

\* [Connection(**c) for c in connections] if connections else None
Connections(kw) ==
    IF Has(kw, "connections") /\ Truthy(kw["connections"])
    THEN LET cs == kw["connections"]
             rs == [i \in DOMAIN cs |-> ConnectionInit(cs[i])]
         IN IF \E i \in DOMAIN rs : rs[i].exc # "none"
            THEN Raise("TypeError")
            ELSE Return(Some([i \in DOMAIN rs |-> rs[i].val.v]))
    ELSE Return(None)

\* A reference to a container: the one object a parameter's default
\* expression built when the function was defined, or the caller's argument.
DefaultObject == [default |-> TRUE]
Argument(v) == [default |-> FALSE, v |-> v]

ProcessGroupInit(kw) ==
    IF ~Binds(kw, {"name", "parent_path", "_type", "component_ref"},
                  {"controllers", "_vars", "connections"})
    THEN Raise("TypeError")
    ELSE LET cs == Connections(kw)
         IN IF cs.exc # "none" THEN cs
            ELSE Return([class |-> "ProcessGroup",
                         _id |-> None, _parent_id |-> None,
                         name |-> kw["name"],
                         parent_path |-> kw["parent_path"],
                         _type |-> kw["_type"],
                         component_ref |-> kw["component_ref"],
                         controllers |-> IF Has(kw, "controllers")
                                         THEN Argument(kw["controllers"])
                                         ELSE DefaultObject,
                         vars |-> OptArg(kw, "_vars"),
                         connections |-> cs.val.v,
                         elements |-> EmptyDict])

\* ProcessorConfig(package_id, **kwargs): the DTO's attributes and package_id
ProcessorConfig(package_id, kwargs) == Put(kwargs, "package_id", package_id)

\* The config dict after Processor.__init__ ran as far as it gets.
ConfigAfterInit(config) ==
    LET c1 == IF Has(config, "properties") THEN config
              ELSE Put(config, "properties", EmptyDict)
    IN IF Has(c1, "package_id") THEN Pop(c1, "package_id") ELSE c1

ProcessorInit(kw) ==
    IF ~Binds(kw, {"name", "parent_path", "_type", "config"}, {"connections"})
    THEN Raise("TypeError")
    ELSE LET config == kw["config"]
             c1 == IF Has(config, "properties") THEN config
                   ELSE Put(config, "properties", EmptyDict)
         IN IF ~Has(c1, "package_id") THEN Raise("KeyError")
            ELSE LET cs == Connections(kw)
                 IN IF cs.exc # "none" THEN cs
                    ELSE Return([class |-> "Processor",
                                 _id |-> None, _parent_id |-> None,
                                 name |-> kw["name"],
                                 parent_path |-> kw["parent_path"],
                                 _type |-> kw["_type"],
                                 config |-> ProcessorConfig(c1["package_id"],
                                                            Pop(c1, "package_id")),
                                 connections |-> cs.val.v])

PortInit(class, kw) ==
    IF ~Binds(kw, {"name", "parent_path", "_type"}, {"connections"})
    THEN Raise("TypeError")
    ELSE LET cs == Connections(kw)
         IN IF cs.exc # "none" THEN cs
            ELSE Return([class |-> class,
                         _id |-> None, _parent_id |-> None,
                         name |-> kw["name"],
                         parent_path |-> kw["parent_path"],
                         _type |-> kw["_type"],
                         connections |-> cs.val.v])

InputPortInit(kw) == PortInit("InputPort", kw)
OutputPortInit(kw) == PortInit("OutputPort", kw)

\* FlowElement.type
ElementType(node) == node._type

(***************************************************************************)
(* FlowElement.from_dict                                                   *)
(***************************************************************************)
\* from_dict's argument: any Python value; d is its mapping when it is a dict.
Dict(d) == [isdict |-> TRUE, d |-> d]
NotADict == [isdict |-> FALSE, d |-> EmptyDict]

\* The record once 'type' has been renamed to '_type' (and, for a process
\* group with non-empty vars, 'vars' to '_vars').
Renamed(d) ==
    LET d1 == Put(Pop(d, "type"), "_type", d["type"])
    IN IF d1["_type"] = "process_group" /\ Has(d1, "vars") /\ Truthy(d1["vars"])
       THEN Put(Pop(d1, "vars"), "_vars", d1["vars"])
       ELSE d1

\* The outcome of FlowElement.from_dict(x).
from_dict(x) ==
    IF ~x.isdict \/ ~Has(x.d, "type") \/ ~TruthyTag(x.d["type"])
    THEN Raise("FlowLibException")
    ELSE IF ~Has(x.d, "name") \/ ~Truthy(x.d["name"]) \/ Len(x.d["name"]) < 1
    THEN Raise("FlowLibException")
    ELSE IF Contains(x.d["name"], PG_NAME_DELIMETER)
    THEN Raise("AttributeError") \* the message reads Flow.PG_DELIMETER
    ELSE LET kw == Renamed(x.d)
         IN CASE kw["_type"] = "process_group" -> ProcessGroupInit(kw)
              [] kw["_type"] = "processor" -> ProcessorInit(kw)
              [] kw["_type"] = "input_port" -> InputPortInit(kw)
              [] kw["_type"] = "output_port" -> OutputPortInit(kw)
              [] OTHER -> Raise("FlowLibException")

\* The argument object after FlowElement.from_dict(x): the renames are made in
\* place, and Processor.__init__ edits the nested config dict in place.
from_dict_effect(x) ==
    IF ~x.isdict \/ ~Has(x.d, "type") \/ ~TruthyTag(x.d["type"]) THEN x
    ELSE IF ~Has(x.d, "name") \/ ~Truthy(x.d["name"]) \/ Len(x.d["name"]) < 1 THEN x
    ELSE IF Contains(x.d["name"], PG_NAME_DELIMETER) THEN x
    ELSE LET kw == Renamed(x.d)
         IN IF /\ kw["_type"] = "processor"
               /\ Binds(kw, {"name", "parent_path", "_type", "config"}, {"connections"})
            THEN Dict(Put(kw, "config", ConfigAfterInit(kw["config"])))
            ELSE Dict(kw)

(***************************************************************************)
(* The records from_dict is tried on                                       *)
(***************************************************************************)
Opt(k, V) == {EmptyDict} \cup {k :> v : v \in V}

TypeTags == {"", "processor", "process_group", "input_port", "output_port", "funnel"}
ElementNames == {<<>>, <<"a">>, <<"b">>, <<"a", "/", "b">>}
ParentPaths == {<<"r">>, <<"r", "/", "a">>}
Configs == {EmptyDict,
            [package_id |-> <<"p">>],
            [package_id |-> <<"p">>, properties |-> [k |-> <<"v">>]]}
ConnectionLists == {<<>>, <<[name |-> <<"c">>]>>, <<[name |-> <<"c">>, to |-> <<"b">>]>>}
NestedLists == {<<[type |-> "input_port", name |-> <<"i">>]>>}
VarDicts == {EmptyDict, [x |-> <<"1">>]}

Records ==
    {NotADict} \cup
    { Dict(t @@ n @@ p @@ c @@ r @@ v @@ k @@ e) :
        t \in Opt("type", TypeTags), n \in Opt("name", ElementNames),
        p \in Opt("parent_path", ParentPaths), c \in Opt("config", Configs),
        r \in Opt("component_ref", {<<"c">>}), v \in Opt("vars", VarDicts),
        k \in Opt("connections", ConnectionLists), e \in Opt("elements", NestedLists) }

NoResult == Raise("not called")

FdInit ==
    /\ rec \in Records
    /\ arg = rec
    /\ result = NoResult
    /\ prevResult = NoResult
    /\ calls = 0

MaxCalls == 2

\* elem = FlowElement.from_dict(rec), the exception caught by the caller
FromDict ==
    /\ calls < MaxCalls
    /\ arg' = rec
    /\ result' = from_dict(rec)
    /\ rec' = from_dict_effect(rec)
    /\ prevResult' = result
    /\ calls' = calls + 1

FdIdle ==
    /\ rec = NotADict /\ arg = NotADict
    /\ result = NoResult /\ prevResult = NoResult /\ calls = 0

(***************************************************************************)
(* Controller, ReportingTask and the identity properties                   *)
(***************************************************************************)
ControllerServiceConfig(package_id, kwargs) == Put(kwargs, "package_id", package_id)
ReportingTaskConfig(package_id, kwargs) == Put(kwargs, "package_id", package_id)

ControllerInit(name, config) ==
    LET c1 == IF Has(config, "properties") THEN config
              ELSE Put(config, "properties", EmptyDict)
    IN IF ~Has(c1, "package_id") THEN Raise("KeyError")
       ELSE Return([class |-> "Controller",
                    _id |-> None, _parent_id |-> None,
                    name |-> name,
                    config |-> ControllerServiceConfig(c1["package_id"],
                                                       Pop(c1, "package_id"))])

ReportingTaskInit(name, config) ==
    LET c1 == IF Has(config, "properties") THEN config
              ELSE Put(config, "properties", EmptyDict)
    IN IF ~Has(c1, "package_id") THEN Raise("KeyError")
       ELSE Return([class |-> "ReportingTask",
                    _id |-> None,
                    name |-> name,
                    config |-> ReportingTaskConfig(c1["package_id"],
                                                   Pop(c1, "package_id"))])

FlowElementClasses == {"Processor", "ProcessGroup", "InputPort", "OutputPort"}

\* The classes that define a property (getter and setter) named f
PropertyOwners(f) ==
    CASE f = "id" -> FlowElementClasses \cup {"Controller", "ReportingTask"}
      [] f = "parent_id" -> FlowElementClasses \cup {"Controller"}

\* The attribute behind the property
Backing(f) == IF f = "id" THEN "_id" ELSE "_parent_id"

\* The setter's body: [the object afterwards, the exception raised]
GuardedSet(o, f, v) ==
    IF Bool(o[Backing(f)])
    THEN [o |-> o, exc |-> "FlowLibException"]
    ELSE [o |-> [o EXCEPT ![Backing(f)] = v], exc |-> "none"]

FlowElement_id_setter(o, v) == GuardedSet(o, "id", v)
FlowElement_parent_id_setter(o, v) == GuardedSet(o, "parent_id", v)
Controller_id_setter(o, v) == GuardedSet(o, "id", v)
Controller_parent_id_setter(o, v) == GuardedSet(o, "parent_id", v)
ReportingTask_id_setter(o, v) == GuardedSet(o, "id", v)

\* o.f = v
SetAttr(o, f, v) ==
    IF o.class \in PropertyOwners(f)
    THEN CASE o.class \in FlowElementClasses /\ f = "id" -> FlowElement_id_setter(o, v)
           [] o.class \in FlowElementClasses /\ f = "parent_id" -> FlowElement_parent_id_setter(o, v)
           [] o.class = "Controller" /\ f = "id" -> Controller_id_setter(o, v)
           [] o.class = "Controller" /\ f = "parent_id" -> Controller_parent_id_setter(o, v)
           [] o.class = "ReportingTask" /\ f = "id" -> ReportingTask_id_setter(o, v)
    ELSE [o |-> Put(o, f, v), exc |-> "none"] \* a plain instance attribute

\* o.f
GetAttr(o, f) ==
    IF o.class \in PropertyOwners(f) THEN Return(o[Backing(f)])
    ELSE IF Has(o, f) THEN Return(o[f])
    ELSE Raise("AttributeError")

IdentityFields == {"id", "parent_id"}
IdValues == {PyStr(<<>>), PyStr(<<"x">>), PyStr(<<"y">>), PyInt(0), PyInt(7)}

SampleConfig == [package_id |-> <<"p">>]
SampleKw(t) == [name |-> <<"a">>, parent_path |-> <<"r">>, _type |-> t]
Instances ==
    { ProcessorInit(SampleKw("processor") @@ [config |-> SampleConfig]).val.v,
      ProcessGroupInit(SampleKw("process_group") @@ [component_ref |-> <<"c">>]).val.v,
      InputPortInit(SampleKw("input_port")).val.v,
      OutputPortInit(SampleKw("output_port")).val.v,
      ControllerInit(<<"a">>, SampleConfig).val.v,
      ReportingTaskInit(<<"a">>, SampleConfig).val.v }

NoSet == [field |-> "none", n |-> 0, exc |-> "none"]

IdInit ==
    /\ obj \in Instances
    /\ first = [f \in IdentityFields |-> None]
    /\ count = [f \in IdentityFields |-> 0]
    /\ lastSet = NoSet

MaxAssign == 3

\* obj.f = v, the exception caught by the caller
Assign(f, v) ==
    /\ count[f] < MaxAssign
    /\ LET r == SetAttr(obj, f, v)
       IN /\ obj' = r.o
          /\ lastSet' = [field |-> f, n |-> count[f] + 1, exc |-> r.exc]
    /\ first' = IF count[f] = 0 THEN [first EXCEPT ![f] = Some(v)] ELSE first
    /\ count' = [count EXCEPT ![f] = @ + 1]

AssignId == \E v \in IdValues : Assign("id", v)
AssignParentId == \E v \in IdValues : Assign("parent_id", v)

IdIdle ==
    /\ obj = ReportingTaskInit(<<"a">>, SampleConfig).val.v
    /\ first = [f \in IdentityFields |-> None]
    /\ count = [f \in IdentityFields |-> 0]
    /\ lastSet = NoSet

(***************************************************************************)
(* Flow: the breadcrumb parent lookup                                      *)
(***************************************************************************)
FlowInit ==
    [class |-> "Flow", name |-> None, controllers |-> None, elements |-> EmptyDict]

\* s.split(ch): the segments between the delimiters; one more than the
\* number of delimiters, an empty string giving one empty segment
RECURSIVE SplitAcc(_, _, _, _)
SplitAcc(s, ch, seg, out) ==
    IF s = <<>> THEN Append(out, seg)
    ELSE IF Head(s) = ch THEN SplitAcc(Tail(s), ch, <<>>, Append(out, seg))
    ELSE SplitAcc(Tail(s), ch, Append(seg, Head(s)), out)
\* A split that never splits: the whole string as its only segment
Split_NoSplit(s, ch) == <<s>>
Split(s, ch) == SplitAcc(s, ch, <<>>, <<>>)

\* A reference to an object: Some(0) is the Flow, Some(i) the element nodes[i]
FlowRef == Some(0)
Object(f, ns, ref) == IF ref.v = 0 THEN f ELSE ns[ref.v]

\* for n in names: elements = target.elements; target = elements.get(n)
RECURSIVE Descend(_, _, _, _)
Descend(f, ns, target, names) ==
    IF names = <<>> THEN Return(target)
    ELSE IF target = None THEN Raise("AttributeError")
    ELSE IF ~Has(Object(f, ns, target), "elements") THEN Raise("AttributeError")
    ELSE LET elements == Object(f, ns, target).elements
             n == Head(names)
         IN Descend(f, ns, IF Has(elements, n) THEN Some(elements[n]) ELSE None,
                    Tail(names))

\* A lookup that does not skip the breadcrumb's first segment, the Flow's name
get_parent_element_AllNames(f, ns, element) ==
    Descend(f, ns, FlowRef, Split(element.parent_path, PG_NAME_DELIMETER))

\* Flow.get_parent_element(element), for the Flow f over the elements ns
get_parent_element(f, ns, element) ==
    LET names == Split(element.parent_path, PG_NAME_DELIMETER)
    IN Descend(f, ns, FlowRef, Tail(names))

(***************************************************************************)
(* Loading and resolving a tree (the loader is not part of model.py; it is *)
(* modelled from the specification: a breadcrumb is the ancestors' names   *)
(* joined by the delimiter, starting with the Flow's name; names are       *)
(* unique per level; each level's elements map is keyed by local name and  *)
(* Flow.elements also holds every element under its full path)             *)
(***************************************************************************)
FlowNames == {<<"r">>, <<"f", "l">>}
LocalNames == {<<"a">>, <<"b">>}
TreeTags == {"process_group", "processor", "input_port"}

\* The breadcrumb of an element declared in p
Breadcrumb(f, ns, p) ==
    IF p = 0 THEN f.name.v
    ELSE ns[p].parent_path \o <<PG_NAME_DELIMETER>> \o ns[p].name

\* The record the loader hands to from_dict for such an element
ElementRecord(tag, nm, path) ==
    [type |-> tag, name |-> nm, parent_path |-> path]
    @@ (IF tag = "processor" THEN [config |-> [package_id |-> <<"p">>]]
        ELSE IF tag = "process_group" THEN [component_ref |-> <<"c">>]
        ELSE EmptyDict)

\* The full path of element i below the Flow: its breadcrumb without the
\* Flow's name, then its own name
FullPath(f, ns, i) ==
    LET crumbs == Tail(Split(ns[i].parent_path, PG_NAME_DELIMETER))
        Join[k \in 0..Len(crumbs)] ==
            IF k = 0 THEN <<>> ELSE Join[k - 1] \o crumbs[k] \o <<PG_NAME_DELIMETER>>
    IN Join[Len(crumbs)] \o ns[i].name

NoCall == [elem |-> 0, out |-> Raise("not called"), resolved |-> FALSE]
NoWalk == [start |-> 0, cur |-> None, steps |-> 0, exc |-> "none"]

TrInit ==
    /\ \E nm \in FlowNames : flow = [FlowInit EXCEPT !.name = Some(nm)]
    /\ nodes = <<>>
    /\ owner = <<>>
    /\ registered = {}
    /\ gp = NoCall
    /\ walk = NoWalk

MaxNodes == 3

Resolved == Len(nodes) >= 1 /\ registered = DOMAIN nodes

\* The loader builds one element declared in p (the canvas or a group)
Construct(p, nm, tag) ==
    /\ Len(nodes) < MaxNodes
    /\ registered = {}
    /\ p = 0 \/ (p \in DOMAIN nodes /\ nodes[p].class = "ProcessGroup")
    /\ \A j \in DOMAIN nodes : owner[j] = p => nodes[j].name # nm
    /\ LET r == from_dict(Dict(ElementRecord(tag, nm, Breadcrumb(flow, nodes, p))))
       IN /\ r.exc = "none"
          /\ nodes' = Append(nodes, r.val.v)
    /\ owner' = Append(owner, p)
    /\ UNCHANGED <<flow, registered, gp, walk>>

\* The resolution pass enters element i in its owner's elements map and,
\* under its full path, in Flow.elements
Register(i) ==
    /\ i \in DOMAIN nodes \ registered
    /\ registered' = registered \cup {i}
    /\ LET flat == Put(flow.elements, FullPath(flow, nodes, i), i)
       IN IF owner[i] = 0
          THEN /\ flow' = [flow EXCEPT !.elements = Put(flat, nodes[i].name, i)]
               /\ nodes' = nodes
          ELSE /\ flow' = [flow EXCEPT !.elements = flat]
               /\ nodes' = [nodes EXCEPT ![owner[i]].elements = Put(@, nodes[i].name, i)]
    /\ UNCHANGED <<owner, gp, walk>>

\* parent = flow.get_parent_element(nodes[i]), the exception caught (the
\* caller keeps one result at a time: a single lookup or a walk)
GetParent(i) ==
    /\ i \in DOMAIN nodes
    /\ gp' = [elem |-> i, out |-> get_parent_element(flow, nodes, nodes[i]),
              resolved |-> Resolved]
    /\ walk' = NoWalk
    /\ UNCHANGED <<flow, nodes, owner, registered>>

\* A caller starts at element i of the resolved Flow ...
WalkStart(i) ==
    /\ Resolved
    /\ i \in DOMAIN nodes
    /\ walk' = [start |-> i, cur |-> Some(i), steps |-> 0, exc |-> "none"]
    /\ gp' = NoCall
    /\ UNCHANGED <<flow, nodes, owner, registered>>

\* ... and replaces it by its parent until it holds the Flow
WalkStep ==
    /\ walk.start # 0
    /\ walk.exc = "none"
    /\ walk.cur # None /\ walk.cur # FlowRef
    /\ LET r == get_parent_element(flow, nodes, nodes[walk.cur.v])
       IN walk' = [walk EXCEPT !.cur = IF r.exc = "none" THEN r.val.v ELSE None,
                               !.steps = @ + 1,
                               !.exc = r.exc]
    /\ UNCHANGED <<flow, nodes, owner, registered, gp>>

TrIdle ==
    /\ flow = FlowInit
    /\ nodes = <<>> /\ owner = <<>> /\ registered = {}
    /\ gp = NoCall /\ walk = NoWalk

(***************************************************************************)
(* Flow.find_controller_by_name                                            *)
(***************************************************************************)
\* flow.controllers holds None, a dict (name -> Controller, in insertion
\* order) or a list of Controllers
PyDict(items) == [kind |-> "dict", items |-> items]
PyList(items) == [kind |-> "list", items |-> items]
Entry(k, v) == [key |-> k, value |-> v]

\* What iterating the collection yields: a dict yields its keys (each a str),
\* a list its items
StrItem(s) == [isstr |-> TRUE, s |-> s]
ObjItem(o) == [isstr |-> FALSE, o |-> o]
Iterate(c) ==
    IF c.kind = "dict" THEN [i \in DOMAIN c.items |-> StrItem(c.items[i].key)]
    ELSE [i \in DOMAIN c.items |-> ObjItem(c.items[i])]

\* list(filter(lambda c: c.name == name, self.controllers))[0]
find_controller_by_name(f, name) ==
    IF f.controllers = None THEN Raise("TypeError")
    ELSE LET its == Iterate(f.controllers.v)
         IN IF \E i \in DOMAIN its : its[i].isstr
            THEN Raise("AttributeError") \* a str has no attribute 'name'
            ELSE LET hits == SelectSeq(its, LAMBDA c : c.o.name = name)
                 IN IF hits = <<>> THEN Raise("IndexError")
                    ELSE Return(hits[1].o)

ControllerNames == {<<"s", "1">>, <<"s", "2">>, <<"S", "1">>}
ControllerConfigs == {[package_id |-> <<"p">>], [package_id |-> <<"q">>]}

\* controllers[k] = v: a key already present keeps its place
DictSet(items, k, v) ==
    IF \E i \in DOMAIN items : items[i].key = k
    THEN [i \in DOMAIN items |-> IF items[i].key = k THEN Entry(k, v) ELSE items[i]]
    ELSE Append(items, Entry(k, v))

NoFind == [called |-> FALSE, name |-> <<>>, over |-> None, out |-> Raise("not called")]

CtInit ==
    /\ flow = FlowInit
    /\ found = NoFind

MaxControllers == 2

\* The loader gives the Flow an empty controllers collection
SetControllers(kind) ==
    /\ flow.controllers = None
    /\ flow' = [flow EXCEPT !.controllers =
                   Some(IF kind = "dict" THEN PyDict(<<>>) ELSE PyList(<<>>))]
    /\ UNCHANGED found

\* ... and enters a Controller: under its name in a dict, at the end of a list
AddController(nm, config) ==
    /\ flow.controllers # None
    /\ Len(flow.controllers.v.items) < MaxControllers
    /\ LET r == ControllerInit(nm, config)
           c == flow.controllers.v
       IN /\ r.exc = "none"
          /\ flow' = [flow EXCEPT !.controllers =
                         Some(IF c.kind = "dict"
                              THEN PyDict(DictSet(c.items, nm, r.val.v))
                              ELSE PyList(Append(c.items, r.val.v)))]
    /\ UNCHANGED found

\* c = flow.find_controller_by_name(nm), the exception caught
Find(nm) ==
    /\ found' = [called |-> TRUE, name |-> nm, over |-> flow.controllers,
                 out |-> find_controller_by_name(flow, nm)]
    /\ UNCHANGED flow

CtIdle == found = NoFind

(***************************************************************************)
(* Default arguments: FlowComponent and ProcessGroup                       *)
(***************************************************************************)
FlowComponentInit(kw) ==
    IF ~Binds(kw, {"component_name", "source_file", "process_group", "raw"},
                  {"defaults", "required_controllers", "required_vars"})
    THEN Raise("TypeError")
    ELSE Return([class |-> "FlowComponent",
                 component_name |-> kw["component_name"],
                 source_file |-> kw["source_file"],
                 defaults |-> IF Has(kw, "defaults")
                              THEN Argument(kw["defaults"]) ELSE DefaultObject,
                 required_controllers |-> IF Has(kw, "required_controllers")
                                          THEN Argument(kw["required_controllers"])
                                          ELSE DefaultObject,
                 required_vars |-> IF Has(kw, "required_vars")
                                   THEN Argument(kw["required_vars"]) ELSE DefaultObject,
                 process_group |-> kw["process_group"],
                 raw |-> kw["raw"]])

\* The parameters whose default is a container, per class
ContainerParams(class) ==
    IF class = "ProcessGroup" THEN {"controllers"}
    ELSE {"defaults", "required_controllers", "required_vars"}
DefaultSlots ==
    {<<c, p>> : c \in {"ProcessGroup", "FlowComponent"},
                p \in {"controllers", "defaults", "required_controllers", "required_vars"}}

\* The contents of the container instance o holds in attribute p
Contents(d, h, o, p) ==
    IF o[p].default THEN d[<<o.class, p>>] ELSE h[o[p].v]

NoOp == [op |-> "none", inst |-> 0, param |-> "none"]

DfInit ==
    /\ defaultObjects = [s \in DefaultSlots |-> {}] \* dict() and [] at definition
    /\ heap = <<>>
    /\ insts = <<>>
    /\ lastOp = NoOp

MaxInsts == 2
Keys == {"k1", "k2"}

PgKw == [name |-> <<"a">>, parent_path |-> <<"r">>, _type |-> "process_group",
         component_ref |-> <<"c">>]
FcKw == [component_name |-> <<"c">>, source_file |-> <<"f">>,
         process_group |-> <<>>, raw |-> <<>>]

\* ProcessGroup(name, parent_path, _type, component_ref), or with
\* controllers=dict() when own
NewProcessGroup(own) ==
    /\ Len(insts) < MaxInsts
    /\ LET kw == IF own THEN Put(PgKw, "controllers", Len(heap) + 1) ELSE PgKw
           r == ProcessGroupInit(kw)
       IN /\ r.exc = "none"
          /\ insts' = Append(insts, r.val.v)
    /\ heap' = IF own THEN Append(heap, {}) ELSE heap
    /\ lastOp' = [op |-> "new", inst |-> Len(insts) + 1, param |-> "none"]
    /\ UNCHANGED defaultObjects

\* FlowComponent(component_name, source_file, process_group, raw), or with
\* fresh containers for all three when own
NewFlowComponent(own) ==
    /\ Len(insts) < MaxInsts
    /\ LET a == Len(heap)
           kw == IF own
                 THEN FcKw @@ [defaults |-> a + 1, required_controllers |-> a + 2,
                               required_vars |-> a + 3]
                 ELSE FcKw
           r == FlowComponentInit(kw)
       IN /\ r.exc = "none"
          /\ insts' = Append(insts, r.val.v)
    /\ heap' = IF own THEN heap \o <<{}, {}, {}>> ELSE heap
    /\ lastOp' = [op |-> "new", inst |-> Len(insts) + 1, param |-> "none"]
    /\ UNCHANGED defaultObjects

\* insts[i].p[k] = ... (or .append(k)): the container the attribute refers to
\* gets k
Insert(i, p, k) ==
    /\ i \in DOMAIN insts
    /\ p \in ContainerParams(insts[i].class)
    /\ k \notin Contents(defaultObjects, heap, insts[i], p)
    /\ IF insts[i][p].default
       THEN /\ defaultObjects' = [defaultObjects EXCEPT ![<<insts[i].class, p>>] = @ \cup {k}]
            /\ heap' = heap
       ELSE /\ heap' = [heap EXCEPT ![insts[i][p].v] = @ \cup {k}]
            /\ defaultObjects' = defaultObjects
    /\ lastOp' = [op |-> "insert", inst |-> i, param |-> p]
    /\ UNCHANGED insts

DfIdle ==
    /\ defaultObjects = [s \in DefaultSlots |-> {}]
    /\ heap = <<>> /\ insts = <<>> /\ lastOp = NoOp

\* ---- end of the model's operations ----

(***************************************************************************)
(* Specifications: one per part of the module                              *)
(***************************************************************************)
InitFromDict == FdInit /\ IdIdle /\ TrIdle /\ CtIdle /\ DfIdle
NextFromDict == FromDict /\ UNCHANGED <<idVars, trVars, ctVars, dfVars>>
SpecFromDict == InitFromDict /\ [][NextFromDict]_vars

InitIdentity == IdInit /\ FdIdle /\ TrIdle /\ CtIdle /\ DfIdle
NextIdentity ==
    \/ AssignId /\ UNCHANGED <<fdVars, trVars, ctVars, dfVars>>
    \/ AssignParentId /\ UNCHANGED <<fdVars, trVars, ctVars, dfVars>>
SpecIdentity == InitIdentity /\ [][NextIdentity]_vars

InitTree == TrInit /\ FdIdle /\ IdIdle /\ CtIdle /\ DfIdle
NextTree ==
    \/ \E p \in 0..MaxNodes, nm \in LocalNames, tag \in TreeTags :
           Construct(p, nm, tag) /\ UNCHANGED <<fdVars, idVars, ctVars, dfVars>>
    \/ \E i \in 1..MaxNodes : Register(i) /\ UNCHANGED <<fdVars, idVars, ctVars, dfVars>>
    \/ \E i \in 1..MaxNodes : GetParent(i) /\ UNCHANGED <<fdVars, idVars, ctVars, dfVars>>
    \/ \E i \in 1..MaxNodes : WalkStart(i) /\ UNCHANGED <<fdVars, idVars, ctVars, dfVars>>
    \/ WalkStep /\ UNCHANGED <<fdVars, idVars, ctVars, dfVars>>
SpecTree == InitTree /\ [][NextTree]_vars

InitControllers ==
    /\ CtInit /\ FdIdle /\ IdIdle /\ DfIdle
    /\ nodes = <<>> /\ owner = <<>> /\ registered = {} /\ gp = NoCall /\ walk = NoWalk
NextControllers ==
    \/ \E kind \in {"dict", "list"} :
           SetControllers(kind)
           /\ UNCHANGED <<fdVars, idVars, dfVars, nodes, owner, registered, gp, walk>>
    \/ \E nm \in ControllerNames, config \in ControllerConfigs :
           AddController(nm, config)
           /\ UNCHANGED <<fdVars, idVars, dfVars, nodes, owner, registered, gp, walk>>
    \/ \E nm \in ControllerNames :
           Find(nm)
           /\ UNCHANGED <<fdVars, idVars, dfVars, nodes, owner, registered, gp, walk>>
SpecControllers == InitControllers /\ [][NextControllers]_vars

InitDefaults == DfInit /\ FdIdle /\ IdIdle /\ TrIdle /\ CtIdle
NextDefaults ==
    \/ \E own \in BOOLEAN :
           NewProcessGroup(own) /\ UNCHANGED <<fdVars, idVars, trVars, ctVars>>
    \/ \E own \in BOOLEAN :
           NewFlowComponent(own) /\ UNCHANGED <<fdVars, idVars, trVars, ctVars>>
    \/ \E i \in 1..MaxInsts, k \in Keys,
          p \in {"controllers", "defaults", "required_controllers", "required_vars"} :
           Insert(i, p, k) /\ UNCHANGED <<fdVars, idVars, trVars, ctVars>>
SpecDefaults == InitDefaults /\ [][NextDefaults]_vars

\* ---- end of the specifications ----

(***************************************************************************)
(* Claims                                                                  *)
(***************************************************************************)
\* C1: for each class and each of id and parent_id, the first assignment of
\* any value succeeds and is the value read back from then on, and every
\* later assignment raises FlowLibException.
C1_WriteOnce ==
    \A f \in IdentityFields :
        count[f] >= 1 =>
            /\ GetAttr(obj, f) = Return(first[f].v)
            /\ lastSet.field = f =>
                   lastSet.exc = IF lastSet.n = 1 THEN "none" ELSE "FlowLibException"

FourTags == {"processor", "process_group", "input_port", "output_port"}

\* The records C2 names: not a mapping, no type, name missing or empty, name
\* containing the delimiter, or a type outside the four tags.
StructurallyInvalid(x) ==
    \/ ~x.isdict
    \/ ~Has(x.d, "type")
    \/ ~Has(x.d, "name")
    \/ x.d["name"] = <<>>
    \/ Contains(x.d["name"], "/")
    \/ x.d["type"] \notin FourTags

\* C2: from_dict rejects every structurally invalid record with
\* FlowLibException, returning no node and raising nothing else.
C2_RejectsWithFlowLibException ==
    (calls >= 1 /\ StructurallyInvalid(arg)) =>
        (result.exc = "FlowLibException" /\ ~result.val.some)

ValidConnection(c) ==
    /\ "name" \in DOMAIN c
    /\ DOMAIN c \subseteq {"name", "from_port", "to_port", "relationships"}

\* The records C3 calls valid.
ValidRecord(x) ==
    /\ ~StructurallyInvalid(x)
    /\ Has(x.d, "parent_path")
    /\ Has(x.d, "connections") =>
           \A i \in DOMAIN x.d["connections"] : ValidConnection(x.d["connections"][i])
    /\ CASE x.d["type"] = "processor" ->
               /\ DOMAIN x.d \subseteq {"type", "name", "parent_path", "config", "connections"}
               /\ Has(x.d, "config") /\ Has(x.d["config"], "package_id")
         [] x.d["type"] = "process_group" ->
               DOMAIN x.d \subseteq {"type", "name", "parent_path", "component_ref",
                                     "vars", "connections"}
         [] OTHER ->
               DOMAIN x.d \subseteq {"type", "name", "parent_path", "connections"}

VariantOf(tag) ==
    CASE tag = "processor" -> "Processor"
      [] tag = "process_group" -> "ProcessGroup"
      [] tag = "input_port" -> "InputPort"
      [] tag = "output_port" -> "OutputPort"

\* C3: for every valid record from_dict returns one node of the variant the
\* discriminator names, with type, name and parent_path as given.
C3_ValidRecordBuildsNode ==
    (calls >= 1 /\ ValidRecord(arg)) =>
        /\ result.exc = "none"
        /\ result.val.v.class = VariantOf(arg.d["type"])
        /\ ElementType(result.val.v) = arg.d["type"]
        /\ result.val.v.name = arg.d["name"]
        /\ result.val.v.parent_path = arg.d["parent_path"]

\* C9: from_dict leaves its argument as it was, so a second call on the same
\* record ends as the first did.
C9_InputUnchanged ==
    /\ calls >= 1 => rec = arg
    /\ calls >= 2 => result = prevResult

\* A process_group record that is well formed and carries a nested list
GroupWithNestedList(x) ==
    /\ x.isdict
    /\ DOMAIN x.d = {"type", "name", "parent_path", "component_ref", "elements"}
    /\ x.d["type"] = "process_group"
    /\ x.d["name"] # <<>> /\ ~Contains(x.d["name"], "/")

\* C7: a process_group record with a nested element list is accepted, every
\* nested record goes through from_dict, and the group owns one node per
\* nested record.
C7_NestedListIsBuilt ==
    (calls >= 1 /\ GroupWithNestedList(arg)) =>
        /\ result.exc = "none"
        /\ Cardinality(DOMAIN result.val.v.elements) = Len(arg.d["elements"])

\* The groups element i is nested in, from the canvas down (as declared)
RECURSIVE Ancestors(_)
Ancestors(i) == IF owner[i] = 0 THEN {} ELSE {owner[i]} \cup Ancestors(owner[i])
\* The depth of an object in the declared tree: 0 for the Flow
Depth(ref) == IF ref.v = 0 THEN 0 ELSE Cardinality(Ancestors(ref.v)) + 1

\* C4: in a resolved Flow get_parent_element(e) is the group that directly
\* contains e, at any depth, and the Flow for a canvas element.
C4_ParentIsContainer ==
    (gp.elem # 0 /\ gp.resolved) => gp.out = Return(Some(owner[gp.elem]))

\* a lookup on a resolved Flow for an element two groups deep returned the
\* inner group
C4_Witness ==
    /\ gp.elem # 0 /\ gp.resolved
    /\ Depth(Some(gp.elem)) = 3
    /\ gp.out.exc = "none"
    /\ gp.out.val.v = Some(owner[gp.elem])
    /\ nodes[owner[gp.elem]].class = "ProcessGroup"

\* C6: from any node of a resolved Flow, repeated get_parent_element never
\* raises, never yields None, and each step moves one level up, so the walk
\* holds the Flow after as many steps as the node is deep.
C6_WalkReachesRoot ==
    walk.start # 0 =>
        /\ walk.exc = "none"
        /\ walk.cur # None
        /\ walk.steps + Depth(walk.cur) = Depth(Some(walk.start))
        /\ walk.steps <= Depth(Some(walk.start))
        /\ (walk.cur = FlowRef \/ ENABLED WalkStep)

\* a walk from an element two groups deep has arrived at the Flow
C6_Witness ==
    /\ walk.start # 0
    /\ Depth(Some(walk.start)) = 3
    /\ walk.cur = FlowRef
    /\ walk.steps = 3

\* Some segment of element i's breadcrumb is not a key where it is looked up
MissingSegment(i) == \E a \in Ancestors(i) : a \notin registered

\* C8: get_parent_element never raises; when a segment of the breadcrumb is
\* missing, last or intermediate, it returns None.
C8_MissingSegmentGivesNone ==
    gp.elem # 0 =>
        /\ gp.out.exc = "none"
        /\ (~gp.resolved /\ MissingSegment(gp.elem)) => gp.out.val.v = None

\* C5: on a Flow whose controllers collection maps name to Controller,
\* find_controller_by_name returns the first Controller with that name, and
\* fails with a lookup error when there is none.
C5_FindsFirstByName ==
    (found.called /\ found.over # None /\ found.over.v.kind = "dict") =>
        LET items == found.over.v.items
            hits == {i \in DOMAIN items : items[i].value.name = found.name}
        IN IF hits = {}
           THEN found.out.exc \in {"IndexError", "KeyError", "LookupError"}
           ELSE found.out =
                    Return(items[CHOOSE i \in hits : \A j \in hits : i <= j].value)

\* C10: a new instance built without the container arguments holds an empty
\* container, and an insertion into one instance's container leaves every
\* other instance's containers as they were.
C10_FreshContainers ==
    [][/\ lastOp'.op = "new" =>
              \A p \in ContainerParams(insts'[lastOp'.inst].class) :
                  insts'[lastOp'.inst][p].default =>
                      Contents(defaultObjects', heap', insts'[lastOp'.inst], p) = {}
       /\ lastOp'.op = "insert" =>
              \A i \in DOMAIN insts \ {lastOp'.inst} :
                  \A p \in ContainerParams(insts[i].class) :
                      Contents(defaultObjects', heap', insts'[i], p)
                          = Contents(defaultObjects, heap, insts[i], p)]_vars

====
